---------------------------- MODULE Spec2Model ----------------------------
(***************************************************************************)
(* A model of lib/strategy.js, the Azure AD OAuth 2.0 passport strategy:   *)
(* the constructor, authenticate, authorizationParams, tokenParams,        *)
(* userProfile and parseErrorResponse.                                     *)
(*                                                                         *)
(* JavaScript values are tagged records.  A JavaScript string that the     *)
(* code takes apart (the access token, the decoded payload, the claim      *)
(* values) is a sequence of characters; a character is a one-character     *)
(* TLA+ string when it is printable ASCII and the string "U+<code point>"  *)
(* otherwise.  A JavaScript string that the code only tests and            *)
(* concatenates (the constructor's options, the per-call options) is a     *)
(* TLA+ string.                                                            *)
(***************************************************************************)
EXTENDS Integers, Sequences, FiniteSets, TLC

VARIABLES
  options,   \* the options object the caller passes to the constructor
  self,      \* the strategy instance (this)
  heap,      \* the profile objects userProfile has allocated, by address
  last       \* the last invocation: its operation, arguments and outcome

vars == <<options, self, heap, last>>

----------------------------------------------------------------------------
(* JavaScript values *)

Undefined == [t |-> "undefined"]

JSNull == [t |-> "null"]

Str(s) == [t |-> "string", v |-> s]

Num(n) == [t |-> "number", v |-> n]

Bool(b) == [t |-> "boolean", v |-> b]

Obj(f) == [t |-> "object", v |-> f]

Arr(q) == [t |-> "array", v |-> q]

\* the function with no argument: an object with no property
EmptyMap == [k \in {} |-> Undefined]

\* obj.key: the property, or undefined when the object has none of that name
Get(f, k) == IF k \in DOMAIN f THEN f[k] ELSE Undefined

\* obj.key = value
Put(f, k, val) == [x \in DOMAIN f \cup {k} |-> IF x = k THEN val ELSE f[x]]

----------------------------------------------------------------------------
(* Characters *)

\* the printable ASCII characters, code points 32 to 126, in order (the grave
\* accent, which a TLA+ string cannot hold, is written "U+96")
Ascii ==
  << " ", "!", "\"", "#", "$", "%", "&", "'", "(", ")", "*", "+", ",", "-",
     ".", "/", "0", "1", "2", "3", "4", "5", "6", "7", "8", "9", ":", ";",
     "<", "=", ">", "?", "@", "A", "B", "C", "D", "E", "F", "G", "H", "I",
     "J", "K", "L", "M", "N", "O", "P", "Q", "R", "S", "T", "U", "V", "W",
     "X", "Y", "Z", "[", "\\", "]", "^", "_", "U+96", "a", "b", "c", "d", "e",
     "f", "g", "h", "i", "j", "k", "l", "m", "n", "o", "p", "q", "r", "s",
     "t", "u", "v", "w", "x", "y", "z", "{", "|", "}", "~" >>

AsciiSet == {Ascii[i] : i \in 1..Len(Ascii)}

\* the character of a code point
CharOf(cp) == IF cp \in 32..126 THEN Ascii[cp - 31] ELSE "U+" \o ToString(cp)

\* the code point of a character below 256
CodeTable == [c \in {CharOf(cp) : cp \in 0..255} |-> CHOOSE cp \in 0..255 : CharOf(cp) = c]

CodeOf(c) == CodeTable[c]

ReplacementChar == CharOf(65533)

ControlChars == {CharOf(cp) : cp \in 0..31}

JsonWhitespace == {" ", CharOf(9), CharOf(10), CharOf(13)}

Digits == <<"0", "1", "2", "3", "4", "5", "6", "7", "8", "9">>

DigitSet == {Digits[i] : i \in 1..10}

DigitVal(c) == (CHOOSE i \in 1..10 : Digits[i] = c) - 1

----------------------------------------------------------------------------
(* String.prototype.split('.') *)

\* the positions of the separator in s
Separators(s, sep) == {i \in 1..Len(s) : s[i] = sep}

\* the position of the k-th separator; 0 before the first segment and
\* Len(s) + 1 after the last
Cut(s, sep, k) ==
  LET d == Separators(s, sep)
  IN  IF k = 0 THEN 0
      ELSE IF k > Cardinality(d) THEN Len(s) + 1
      ELSE CHOOSE i \in d : Cardinality({j \in d : j <= i}) = k

\* s.split(sep) for a one-character separator: one segment more than there
\* are separators, so always at least one segment
Split(s, sep) ==
  [k \in 1..(Cardinality(Separators(s, sep)) + 1) |->
     SubSeq(s, Cut(s, sep, k - 1) + 1, Cut(s, sep, k) - 1)]

----------------------------------------------------------------------------
(* new Buffer(string, 'base64'): Node's lenient base64 decoder *)

Base64Alphabet ==
  << "A", "B", "C", "D", "E", "F", "G", "H", "I", "J", "K", "L", "M", "N",
     "O", "P", "Q", "R", "S", "T", "U", "V", "W", "X", "Y", "Z", "a", "b",
     "c", "d", "e", "f", "g", "h", "i", "j", "k", "l", "m", "n", "o", "p",
     "q", "r", "s", "t", "u", "v", "w", "x", "y", "z", "0", "1", "2", "3",
     "4", "5", "6", "7", "8", "9", "+", "/" >>

Base64Set == {Base64Alphabet[i] : i \in 1..64} \cup {"-", "_"}

\* the six bits of a legal character; the URL-safe '-' and '_' are legal too
Unbase64(c) ==
  IF c = "-" THEN 62
  ELSE IF c = "_" THEN 63
  ELSE (CHOOSE i \in 1..64 : Base64Alphabet[i] = c) - 1

IsBase64Char(c) == c \in Base64Set

\* the six-bit values the decoder reads: the first '=' ends the decoding, and
\* the illegal characters before it are skipped
Sextets(s) ==
  LET pads == Separators(s, "=")
      stop == IF pads = {} THEN Len(s) + 1
              ELSE CHOOSE i \in pads : \A j \in pads : i <= j
      legal == SelectSeq(SubSeq(s, 1, stop - 1), IsBase64Char)
  IN  [i \in 1..Len(legal) |-> Unbase64(legal[i])]

\* four six-bit values make three bytes; a last group of three makes two
\* bytes, of two makes one byte, and a single left-over value makes none
BytesOf(q) ==
  LET rest == Len(q) % 4
      n == (Len(q) \div 4) * 3 + (IF rest < 2 THEN 0 ELSE rest - 1)
      b1(i) == (q[i] * 4 + q[i + 1] \div 16) % 256
      b2(i) == (q[i + 1] * 16 + q[i + 2] \div 4) % 256
      b3(i) == (q[i + 2] * 64 + q[i + 3]) % 256
  IN  [k \in 1..n |->
         LET i == ((k - 1) \div 3) * 4 + 1
         IN  CASE (k - 1) % 3 = 0 -> b1(i)
               [] (k - 1) % 3 = 1 -> b2(i)
               [] OTHER -> b3(i)]

\* the bytes of new Buffer(s, 'base64'); it never throws for a string
Base64Decode(s) == BytesOf(Sextets(s))

----------------------------------------------------------------------------
(* buffer.toString('utf-8') *)

\* One- and two-byte sequences are decoded; every other byte of 128 or more
\* (a stray continuation byte, a lead byte without its continuation, 0xC0,
\* 0xC1, 0xF5..0xFF) becomes U+FFFD.  It never throws.  The model's inputs
\* hold no three- or four-byte sequence.

IsLead2(b, i) ==
  /\ b[i] \in 194..223
  /\ i < Len(b)
  /\ b[i + 1] \in 128..191

\* the second byte of a two-byte sequence: its lead byte yields the character
IsConsumed(b, i) == i > 1 /\ IsLead2(b, i - 1)

Utf8CharAt(b, i) ==
  IF b[i] < 128 THEN CharOf(b[i])
  ELSE IF IsLead2(b, i) THEN CharOf((b[i] - 192) * 64 + (b[i + 1] - 128))
  ELSE ReplacementChar

ToStringUtf8(b) ==
  LET starts == SelectSeq([i \in 1..Len(b) |-> i], LAMBDA i : ~IsConsumed(b, i))
  IN  [k \in 1..Len(starts) |-> Utf8CharAt(b, starts[k])]

----------------------------------------------------------------------------
(* JSON.parse *)

\* The grammar covered: objects, arrays, strings with their escapes, the
\* literals true, false and null, and integers without fraction or exponent
\* (the model's inputs hold no other number).  A text outside the grammar is
\* a SyntaxError: ok is FALSE.

ParseFail == [ok |-> FALSE]

ParseOk(val, pos) == [ok |-> TRUE, val |-> val, pos |-> pos]

RECURSIVE SkipWs(_, _)
SkipWs(s, i) ==
  IF i <= Len(s) /\ s[i] \in JsonWhitespace THEN SkipWs(s, i + 1) ELSE i

\* whether the characters of lit stand in s from position i on
StartsWith(s, i, lit) ==
  /\ i + Len(lit) - 1 <= Len(s)
  /\ \A k \in 1..Len(lit) : s[i + k - 1] = lit[k]

HexDigits ==
  << "0", "1", "2", "3", "4", "5", "6", "7", "8", "9", "a", "b", "c", "d", "e", "f" >>

UpperHex == <<"A", "B", "C", "D", "E", "F">>

IsHex(c) ==
  \/ \E i \in 1..16 : HexDigits[i] = c
  \/ \E i \in 1..6 : UpperHex[i] = c

HexVal(c) ==
  IF \E i \in 1..16 : HexDigits[i] = c
    THEN (CHOOSE i \in 1..16 : HexDigits[i] = c) - 1
    ELSE (CHOOSE i \in 1..6 : UpperHex[i] = c) + 9

\* the character a one-letter escape stands for
SimpleEscapes == {"\"", "\\", "/", "b", "f", "n", "r", "t"}

Unescape(c) ==
  CASE c = "b" -> CharOf(8)
    [] c = "f" -> CharOf(12)
    [] c = "n" -> CharOf(10)
    [] c = "r" -> CharOf(13)
    [] c = "t" -> CharOf(9)
    [] OTHER -> c

\* the rest of a string, from the character after its opening quote; a raw
\* control character and an unknown escape are errors
RECURSIVE ParseString(_, _, _)
ParseString(s, i, acc) ==
  IF i > Len(s) THEN ParseFail
  ELSE IF s[i] = "\"" THEN ParseOk(Str(acc), i + 1)
  ELSE IF s[i] \in ControlChars THEN ParseFail
  ELSE IF s[i] # "\\" THEN ParseString(s, i + 1, Append(acc, s[i]))
  ELSE IF i + 1 > Len(s) THEN ParseFail
  ELSE IF s[i + 1] \in SimpleEscapes
    THEN ParseString(s, i + 2, Append(acc, Unescape(s[i + 1])))
  ELSE IF /\ s[i + 1] = "u"
          /\ i + 5 <= Len(s)
          /\ \A k \in 2..5 : IsHex(s[i + k])
    THEN ParseString(s, i + 6,
           Append(acc, CharOf(HexVal(s[i + 2]) * 4096 + HexVal(s[i + 3]) * 256
                              + HexVal(s[i + 4]) * 16 + HexVal(s[i + 5]))))
  ELSE ParseFail

RECURSIVE ParseDigits(_, _, _)
ParseDigits(s, i, n) ==
  IF i <= Len(s) /\ s[i] \in DigitSet
    THEN ParseDigits(s, i + 1, n * 10 + DigitVal(s[i]))
    ELSE ParseOk(Num(n), i)

\* an integer: an optional minus, then 0 or a digit string not starting with 0
ParseNumber(s, i) ==
  LET neg == s[i] = "-"
      j == IF neg THEN i + 1 ELSE i
  IN  IF j > Len(s) \/ s[j] \notin DigitSet THEN ParseFail
      ELSE IF s[j] = "0" THEN ParseOk(Num(0), j + 1)
      ELSE LET r == ParseDigits(s, j, 0)
           IN  ParseOk(Num(IF neg THEN 0 - r.val.v ELSE r.val.v), r.pos)

RECURSIVE ParseValue(_, _), ParseMembers(_, _, _), ParseElements(_, _, _)
ParseValue(s, i0) ==
  LET i == SkipWs(s, i0)
  IN  IF i > Len(s) THEN ParseFail
      ELSE IF s[i] = "{"
        THEN LET j == SkipWs(s, i + 1)
             IN  IF j <= Len(s) /\ s[j] = "}"
                   THEN ParseOk(Obj(EmptyMap), j + 1)
                   ELSE ParseMembers(s, j, EmptyMap)
      ELSE IF s[i] = "["
        THEN LET j == SkipWs(s, i + 1)
             IN  IF j <= Len(s) /\ s[j] = "]"
                   THEN ParseOk(Arr(<<>>), j + 1)
                   ELSE ParseElements(s, j, <<>>)
      ELSE IF s[i] = "\"" THEN ParseString(s, i + 1, <<>>)
      ELSE IF s[i] = "-" \/ s[i] \in DigitSet THEN ParseNumber(s, i)
      ELSE IF StartsWith(s, i, <<"t", "r", "u", "e">>)
        THEN ParseOk(Bool(TRUE), i + 4)
      ELSE IF StartsWith(s, i, <<"f", "a", "l", "s", "e">>)
        THEN ParseOk(Bool(FALSE), i + 5)
      ELSE IF StartsWith(s, i, <<"n", "u", "l", "l">>)
        THEN ParseOk(JSNull, i + 4)
      ELSE ParseFail

\* the members of an object from position i, where a key must start; of two
\* members with one key the later wins
ParseMembers(s, i, f) ==
  IF i > Len(s) \/ s[i] # "\"" THEN ParseFail
  ELSE LET k == ParseString(s, i + 1, <<>>)
       IN  IF ~k.ok THEN ParseFail
           ELSE LET c == SkipWs(s, k.pos)
                IN  IF c > Len(s) \/ s[c] # ":" THEN ParseFail
                    ELSE LET val == ParseValue(s, c + 1)
                         IN  IF ~val.ok THEN ParseFail
                             ELSE LET e == SkipWs(s, val.pos)
                                      g == Put(f, k.val.v, val.val)
                                  IN  IF e > Len(s) THEN ParseFail
                                      ELSE IF s[e] = "}" THEN ParseOk(Obj(g), e + 1)
                                      ELSE IF s[e] = ","
                                        THEN ParseMembers(s, SkipWs(s, e + 1), g)
                                      ELSE ParseFail

ParseElements(s, i, q) ==
  LET val == ParseValue(s, i)
  IN  IF ~val.ok THEN ParseFail
      ELSE LET e == SkipWs(s, val.pos)
               g == Append(q, val.val)
           IN  IF e > Len(s) THEN ParseFail
               ELSE IF s[e] = "]" THEN ParseOk(Arr(g), e + 1)
               ELSE IF s[e] = "," THEN ParseElements(s, e + 1, g)
               ELSE ParseFail

\* JSON.parse(text): the value, or a SyntaxError; only whitespace may follow
\* the value
JSONParse(s) ==
  LET r == ParseValue(s, 1)
  IN  IF r.ok /\ SkipWs(s, r.pos) > Len(s)
        THEN [ok |-> TRUE, val |-> r.val]
        ELSE [ok |-> FALSE]

----------------------------------------------------------------------------
(* The + operator on strings: ToString of the other operand *)

RECURSIVE DigitsOf(_)
DigitsOf(n) ==
  IF n < 10 THEN <<Digits[n + 1]>> ELSE Append(DigitsOf(n \div 10), Digits[(n % 10) + 1])

RECURSIVE ToJSString(_), JoinElements(_, _)
ToJSString(val) ==
  CASE val.t = "undefined" -> <<"u", "n", "d", "e", "f", "i", "n", "e", "d">>
    [] val.t = "null" -> <<"n", "u", "l", "l">>
    [] val.t = "string" -> val.v
    [] val.t = "number" ->
         IF val.v < 0 THEN <<"-">> \o DigitsOf(0 - val.v) ELSE DigitsOf(val.v)
    [] val.t = "boolean" ->
         IF val.v THEN <<"t", "r", "u", "e">> ELSE <<"f", "a", "l", "s", "e">>
    [] val.t = "array" -> JoinElements(val.v, 1)
    [] val.t = "object" ->
         << "[", "o", "b", "j", "e", "c", "t", " ", "O", "b", "j", "e", "c", "t", "]" >>

\* Array.prototype.join(','): null and undefined elements are empty
JoinElements(q, i) ==
  IF i > Len(q) THEN <<>>
  ELSE (IF q[i].t \in {"null", "undefined"} THEN <<>> ELSE ToJSString(q[i]))
       \o (IF i < Len(q) THEN <<",">> \o JoinElements(q, i + 1) ELSE <<>>)

\* a + b where one operand is a string
Concat(a, b) == Str(ToJSString(a) \o ToJSString(b))

\* value.key for a key of the claim set: a TypeError on null and undefined,
\* undefined on a primitive and on an array
CanReadProperty(val) == val.t \notin {"null", "undefined"}

GetProperty(val, k) == IF val.t = "object" THEN Get(val.v, k) ELSE Undefined

----------------------------------------------------------------------------
(* The access tokens the identity provider issues: header.payload.signature, *)
(* the payload being the base64 of the UTF-8 bytes of the JSON claim set     *)

\* the concatenation of the sequences qq[lo], ..., qq[hi]
RECURSIVE FlattenRange(_, _, _)
FlattenRange(qq, lo, hi) ==
  IF lo > hi THEN <<>>
  ELSE IF lo = hi THEN qq[lo]
  ELSE LET mid == (lo + hi) \div 2
       IN  FlattenRange(qq, lo, mid) \o FlattenRange(qq, mid + 1, hi)

\* the concatenation of a sequence of sequences
Flatten(qq) == FlattenRange(qq, 1, Len(qq))

\* a JSON string literal: the quote and the backslash are escaped
QuoteJson(s) ==
  <<"\"">>
  \o Flatten([i \in 1..Len(s) |->
                IF s[i] \in {"\"", "\\"} THEN <<"\\", s[i]>> ELSE <<s[i]>>])
  \o <<"\"">>

\* the text of an object with string values: members is a sequence of
\* <<key, value>> pairs, written in that order
JSONStringify(members) ==
  <<"{">>
  \o Flatten([i \in 1..Len(members) |->
                (IF i > 1 THEN <<",">> ELSE <<>>)
                \o QuoteJson(members[i][1]) \o <<":">> \o QuoteJson(members[i][2])])
  \o <<"}">>

\* the UTF-8 bytes of a character below U+0800: one byte, or two
Utf8Bytes(c) ==
  LET cp == CodeOf(c)
  IN  IF cp < 128 THEN <<cp>> ELSE <<192 + (cp \div 64), 128 + (cp % 64)>>

Utf8Encode(s) == Flatten([i \in 1..Len(s) |-> Utf8Bytes(s[i])])

\* standard base64 with '=' padding; urlSafe writes '-' and '_' for '+' and
\* '/' and leaves the padding out, as a JSON Web Token does
Base64Char(n, urlSafe) ==
  IF urlSafe /\ n = 62 THEN "-"
  ELSE IF urlSafe /\ n = 63 THEN "_"
  ELSE Base64Alphabet[n + 1]

Base64Encode(b, urlSafe) ==
  LET n == Len(b)
      byte(i) == IF i <= n THEN b[i] ELSE 0
      groups == (n + 2) \div 3
      used == groups * 4 - (IF n % 3 = 0 THEN 0 ELSE 3 - (n % 3))
      sextet(k) ==
        LET i == ((k - 1) \div 4) * 3 + 1
        IN  CASE (k - 1) % 4 = 0 -> byte(i) \div 4
              [] (k - 1) % 4 = 1 -> (byte(i) % 4) * 16 + byte(i + 1) \div 16
              [] (k - 1) % 4 = 2 -> (byte(i + 1) % 16) * 4 + byte(i + 2) \div 64
              [] OTHER -> byte(i + 2) % 64
  IN  [k \in 1..(IF urlSafe THEN used ELSE groups * 4) |->
         IF k > used THEN "=" ELSE Base64Char(sextet(k), urlSafe)]

\* RFC 4648 base64: the standard alphabet, a length that is a multiple of
\* four, and padding only at the end of the last group
IsStrictBase64(s) ==
  /\ Len(s) % 4 = 0
  /\ \A i \in 1..Len(s) :
       \/ s[i] \in Base64Set \ {"-", "_"}
       \/ s[i] = "=" /\ i > Len(s) - 2 /\ \A j \in i..Len(s) : s[j] = "="

\* whether the bytes are well-formed UTF-8 (of one- and two-byte sequences)
IsValidUtf8(b) == \A i \in 1..Len(b) : b[i] < 128 \/ IsLead2(b, i) \/ IsConsumed(b, i)

TokenHeader == <<"h", "d", "r">>

TokenSignature == <<"s", "i", "g">>

\* a three-segment token around a payload segment
MakeToken(payload) == TokenHeader \o <<".">> \o payload \o <<".">> \o TokenSignature

----------------------------------------------------------------------------
(* function Strategy(options, verify) *)

\* the instance before the constructor has run
NotConstructed == [constructed |-> FALSE]

\* options.key as a condition, for a string-valued option: a missing key reads
\* as undefined, which is false, and so is the empty string
Truthy(o, k) == k \in DOMAIN o /\ o[k] # ""

\* options.key || fallback
OrElse(o, k, fallback) == IF Truthy(o, k) THEN o[k] ELSE fallback

\* options.key as an operand of string +: a missing key reads "undefined"
Text(o, k) == IF k \in DOMAIN o THEN o[k] ELSE "undefined"

\* options = options || {}
OptionsOrEmpty(arg) == IF arg = Undefined THEN EmptyMap ELSE arg.v

AuthorizationURL(o) ==
  OrElse(o, "authorizationURL",
         "https://login.windows.net/" \o Text(o, "tenantID")
           \o "/oauth2/authorize?api-version=1.0")

TokenURLFromAuthorizationURL(o) ==
  OrElse(o, "authorizationURL",
         "https://login.windows.net/" \o Text(o, "tenantID")
           \o "/oauth2/token?api-version=1.0")

TokenURL(o) ==
  OrElse(o, "tokenURL",
         "https://login.windows.net/" \o Text(o, "tenantID")
           \o "/oauth2/token?api-version=1.0")

ScopeSeparatorSpace(o) == OrElse(o, "scopeSeparator", " ")

ScopeSeparator(o) == OrElse(o, "scopeSeparator", ",")

\* the options object after the three assignments, as OAuth2Strategy gets it
StrategyOptions(arg) ==
  LET o0 == OptionsOrEmpty(arg)
      o1 == Put(o0, "authorizationURL", AuthorizationURL(o0))
      o2 == Put(o1, "tokenURL", TokenURL(o1))
  IN  Put(o2, "scopeSeparator", ScopeSeparator(o2))

\* this, after OAuth2Strategy.call(this, options, verify) and this.name = 'azure'
NewStrategy(arg) ==
  [constructed |-> TRUE, name |-> "azure", super |-> StrategyOptions(arg)]

----------------------------------------------------------------------------
(* Strategy.prototype.authorizationParams and tokenParams *)

\* if (options.key) params.key = options.key
CopyIfSet(params, o, k) == IF Truthy(o, k) THEN Put(params, k, o[k]) ELSE params

AuthorizationParamsNoLoginHint(o) ==
  CopyIfSet(CopyIfSet(CopyIfSet(EmptyMap, o, "domain_hint"), o, "prompt"), o, "resource")

AuthorizationParams(o) ==
  LET p1 == CopyIfSet(EmptyMap, o, "domain_hint")
      p2 == CopyIfSet(p1, o, "login_hint")
      p3 == CopyIfSet(p2, o, "prompt")
  IN  CopyIfSet(p3, o, "resource")

TokenParamsAsAuthorizationParams(o) == AuthorizationParams(o)

TokenParams(o) == CopyIfSet(EmptyMap, o, "resource")

----------------------------------------------------------------------------
(* Strategy.prototype.userProfile *)

None == [name |-> "none"]

TypeError == [name |-> "TypeError"]

SyntaxError == [name |-> "SyntaxError"]

ReferenceError == [name |-> "ReferenceError"]

\* what the callback throws when it throws
CallbackError == [name |-> "Error", from |-> "done"]

\* a reference to the object at an address of the heap
Ref(a) == [t |-> "ref", addr |-> a]

K_oid == <<"o", "i", "d">>

K_tid == <<"t", "i", "d">>

K_unique_name == <<"u", "n", "i", "q", "u", "e", "_", "n", "a", "m", "e">>

K_given_name == <<"g", "i", "v", "e", "n", "_", "n", "a", "m", "e">>

K_family_name == <<"f", "a", "m", "i", "l", "y", "_", "n", "a", "m", "e">>

K_email == <<"e", "m", "a", "i", "l">>

\* the object literal's address when every earlier object is still held
SameObject(h) == 1

\* var profile = { ... }: an object literal is a new object
NewObject(h) == Len(h) + 1

\* the heap with the object at address a set
Store(h, a, obj) == IF a = Len(h) + 1 THEN Append(h, obj) ELSE [h EXCEPT ![a] = obj]

\* profile.id = tokenJson.oid ... profile.emails = [tokenJson.email]
FillProfile(p, tokenJson) ==
  LET p3 == Put(p, "id", GetProperty(tokenJson, K_oid))
      p4 == Put(p3, "orgId", GetProperty(tokenJson, K_tid))
      p5 == Put(p4, "username", GetProperty(tokenJson, K_unique_name))
      p6 == Put(p5, "displayname",
                Concat(Concat(GetProperty(tokenJson, K_given_name), Str(<<" ">>)),
                       GetProperty(tokenJson, K_family_name)))
      p7 == Put(p6, "name",
                Obj(Put(Put(EmptyMap, "familyName", GetProperty(tokenJson, K_family_name)),
                        "givenName", GetProperty(tokenJson, K_given_name))))
  IN  Put(p7, "emails", Arr(<<GetProperty(tokenJson, K_email)>>))

\* how the try block ends: the profile as far as it was filled, the calls of
\* done made, and the exception thrown (None when it ran to its end)
TryEnd(p, calls, e) == [profile |-> p, doneCalls |-> calls, exception |-> e]

\* lines 158 to 167, once JSON.parse has returned: the claims are read (a
\* TypeError when the value is null), the profile is filled and done is called
\* with the profile, which is at address addr; cb tells whether done returns
\* or throws
AfterParse(p2, tokenJson, cb, addr) ==
  IF ~CanReadProperty(tokenJson)
    THEN TryEnd(p2, <<>>, TypeError)
    ELSE TryEnd(FillProfile(p2, tokenJson),
                <<[err |-> JSNull, profile |-> Ref(addr)]>>,
                IF cb = "throws" THEN CallbackError ELSE None)

\* lines 156 and 157: parsed is what JSON.parse(tokenUTF8) gave, a SyntaxError
\* when it is not ok
AfterDecode(p1, parsed, cb, addr) ==
  IF ~parsed.ok
    THEN TryEnd(p1, <<>>, SyntaxError)
    ELSE AfterParse(Put(p1, "json", parsed.val), parsed.val, cb, addr)

\* lines 154 and 155, with the decoded text
WithUtf8(p0, tokenUTF8, cb, addr) ==
  AfterDecode(Put(p0, "utf8", Str(tokenUTF8)), JSONParse(tokenUTF8), cb, addr)

\* line 153 on: segs is accessToken.split('.'); new Buffer(undefined, 'base64')
\* throws a TypeError when there is no segment of index 1
AfterSplit(p0, segs, cb, addr) ==
  IF Len(segs) < 2
    THEN TryEnd(p0, <<>>, TypeError)
    ELSE WithUtf8(p0, ToStringUtf8(Base64Decode(segs[2])), cb, addr)

\* the try block; p0 is the profile object
TryBlock(p0, accessToken, cb, addr) == AfterSplit(p0, Split(accessToken, "."), cb, addr)

\* the identifiers bound where the catch block runs: its parameter, the
\* function's parameters and variables, the module's variables and the
\* globals the code names
CatchScope ==
  {"exception", "accessToken", "done", "profile", "tokenBase64", "tokenBinary",
   "tokenUTF8", "tokenJson", "util", "OAuth2Strategy", "Strategy", "module",
   "require", "console", "Buffer", "JSON"}

\* how userProfile ends: threw is the exception that leaves it (None when it
\* returns)
ProfileEnd(p, calls, log, e) ==
  [profile |-> p, doneCalls |-> calls, log |-> log, threw |-> e]

\* the catch block: console.log(...), then done(ex, null); evaluating the
\* unbound identifier ex throws a ReferenceError before done is called
CatchBlock(r, cb) ==
  LET log == <<"Unable to parse oauth2 token for user profile">>
  IN  IF "ex" \in CatchScope
        THEN ProfileEnd(r.profile,
                        Append(r.doneCalls, [err |-> Undefined, profile |-> JSNull]),
                        log, IF cb = "throws" THEN CallbackError ELSE None)
        ELSE ProfileEnd(r.profile, r.doneCalls, log, ReferenceError)

\* after the try block: the catch block runs when it threw
AfterTry(r, cb) ==
  IF r.exception = None
    THEN ProfileEnd(r.profile, r.doneCalls, <<>>, None)
    ELSE CatchBlock(r, cb)

\* userProfile(accessToken, done) on an instance named name, its profile
\* object at address addr
UserProfile(name, accessToken, cb, addr) ==
  AfterTry(TryBlock(Put(EmptyMap, "provider", Str(name)), accessToken, cb, addr), cb)

----------------------------------------------------------------------------
(* Inputs *)

\* marks a key that an options object does not have
Absent == "(absent)"

\* the object with the keys of choice that are not marked absent
MapOf(choice) == [k \in {x \in DOMAIN choice : choice[x] # Absent} |-> choice[k]]

\* what every caller configures
Credentials ==
  [clientID |-> "123-456-789", clientSecret |-> "shhh-its-a-secret",
   callbackURL |-> "https://www.example.net/auth/azure/callback"]

\* the constructor's options argument: left out, or an object
CtorInputs ==
  {Undefined} \cup
  {Obj(MapOf(c) @@ Credentials) :
     c \in [tenantID : {Absent, "", "12c983bf-46f6-414f-93ab-5d7ad211db43"},
            authorizationURL : {Absent, "", "https://login.example.net/authorize"},
            tokenURL : {Absent, "", "https://login.example.net/token"},
            scopeSeparator : {Absent, "", " ", ";"}]}

\* the per-call options of authenticate, authorizationParams and tokenParams
CallOptions ==
  {MapOf(c) :
     c \in [domain_hint : {Absent, "", "contoso.com"},
            login_hint : {Absent, "", "al@contoso.com"},
            prompt : {Absent, "", "login", "bogus"},
            resource : {Absent, "", "https://graph.windows.net"},
            scope : {Absent, "openid"}]}

ClaimKeys == <<K_oid, K_tid, K_unique_name, K_given_name, K_family_name, K_email>>

PlainValues == << <<"o", "1">>, <<"t", "1">>, <<"u", "1">>, <<"A", "l">>, <<"B", "o">>, <<"e", "1">> >>

\* values with a quote, a backslash, a two-byte character, a space and the
\* empty string
TrickyValues ==
  << <<"a", "\"", "b">>, <<"c", "\\", "d">>, <<CharOf(233), "@", "x">>,
     <<"J", " ", "R">>, <<>>, <<"e", "1">> >>

\* the claim set with the claims numbered in S, in the order of ClaimKeys
Members(S, values) ==
  LET idx == SelectSeq([i \in 1..6 |-> i], LAMBDA i : i \in S)
  IN  [k \in 1..Len(idx) |-> <<ClaimKeys[idx[k]], values[idx[k]]>>]

ClaimsOf(S, values) == [k \in {ClaimKeys[i] : i \in S} |->
                          values[CHOOSE i \in S : ClaimKeys[i] = k]]

\* an input of userProfile: the token, and the claim set it was made from
\* (kind "claims"), if any
TokenInput(kind, claims, token) == [kind |-> kind, claims |-> claims, token |-> token]

ClaimsToken(S, values, urlSafe) ==
  TokenInput("claims", ClaimsOf(S, values),
             MakeToken(Base64Encode(Utf8Encode(JSONStringify(Members(S, values))), urlSafe)))

\* the base64 of an ASCII text
Encoded(text) == Base64Encode(Utf8Encode(text), FALSE)

ClaimsInputs ==
  {ClaimsToken(S, PlainValues, u) : S \in SUBSET (1..6), u \in BOOLEAN}
  \cup {ClaimsToken(1..6, TrickyValues, u) : u \in BOOLEAN}

\* tokens without a dot
NoDotInputs ==
  {TokenInput("nodot", EmptyMap, t) :
     t \in {<<>>, <<"a", "b", "c">>, Encoded(JSONStringify(Members(1..6, PlainValues)))}}

\* tokens whose payload segment is not the base64 of a JSON object
OddInputs ==
  {TokenInput("odd", EmptyMap, MakeToken(seg)) :
     seg \in {<<>>,                                     \* hdr..sig
              <<"!", "!", "!">>,                        \* no base64 character
              <<"e", "!", "3", " ", "0">>,              \* {} with two illegal characters
              <<"e", "3", "=", "0">>,                   \* padding in the middle
              Encoded(<<"x", "y", "z">>),
              Encoded(<<"{">>),
              Encoded(<<"n", "u", "l", "l">>),
              Encoded(<<"7">>),
              Encoded(<<"\"", "s", "\"">>),
              Encoded(<<"[", "]">>),
              Encoded(<<"{", "}">>),
              Base64Encode(<<255>>, FALSE),             \* one byte that is not UTF-8
              \* {"oid":"<0xFF>"}: JSON but for one byte that is not UTF-8
              Base64Encode(<<123, 34, 111, 105, 100, 34, 58, 34, 255, 34, 125>>, FALSE)}}
  \cup {TokenInput("odd", EmptyMap, t) :
          t \in {<<"h", "d", "r", ".">> \o Encoded(<<"{", "}">>),            \* two segments
                 MakeToken(Encoded(<<"{", "}">>)) \o <<".", "x">>}}          \* four segments

TokenInputs == ClaimsInputs \cup NoDotInputs \cup OddInputs

\* whether done returns or throws
CallbackBehaviours == {"returns", "throws"}

Requests == {"GET /auth/azure", "GET /auth/azure/callback?code=c"}

\* what the delegate's parseErrorResponse returns
DelegateErrors == {JSNull, [t |-> "error", name |-> "AuthorizationError"]}

\* the inputs of the interleaved invocations on one instance
SharedCtorInputs ==
  {Undefined,
   Obj([tenantID |-> "12c983bf-46f6-414f-93ab-5d7ad211db43"] @@ Credentials),
   Obj([authorizationURL |-> "https://login.example.net/authorize", scopeSeparator |-> " "]
       @@ Credentials)}

SharedCallOptions ==
  {EmptyMap, [resource |-> "https://graph.windows.net"],
   [domain_hint |-> "contoso.com", prompt |-> "login"]}

SharedTokenInputs ==
  {ClaimsToken(1..6, PlainValues, FALSE), ClaimsToken({1, 4}, PlainValues, TRUE),
   TokenInput("nodot", EmptyMap, <<"a", "b", "c">>)}

\* the configuration of the instance whose operations are checked one by one
DefaultArg == Obj([tenantID |-> "12c983bf-46f6-414f-93ab-5d7ad211db43"] @@ Credentials)

\* at most this many profile objects are allocated
MaxProfiles == 2

----------------------------------------------------------------------------
(* Actions *)

\* new Strategy(options, verify): the caller's options object is assigned to
Construct ==
  /\ ~self.constructed
  /\ self' = NewStrategy(options)
  /\ options' = IF options = Undefined THEN Undefined ELSE Obj(StrategyOptions(options))
  /\ last' = [op |-> "new", arg |-> options]
  /\ UNCHANGED heap

\* strategy.authenticate(req, options): the delegate's authenticate, called
\* on this with the same arguments
Authenticate(req, o) ==
  /\ self.constructed
  /\ last' = [op |-> "authenticate", req |-> req, options |-> o,
              delegated |-> [fn |-> "OAuth2Strategy.prototype.authenticate",
                             this |-> self, args |-> <<req, o>>]]
  /\ UNCHANGED <<options, self, heap>>

AuthorizationParamsCall(o) ==
  /\ self.constructed
  /\ last' = [op |-> "authorizationParams", options |-> o, result |-> AuthorizationParams(o)]
  /\ UNCHANGED <<options, self, heap>>

TokenParamsCall(o) ==
  /\ self.constructed
  /\ last' = [op |-> "tokenParams", options |-> o, result |-> TokenParams(o)]
  /\ UNCHANGED <<options, self, heap>>

\* what a userProfile invocation leaves: the profile object on the heap, and
\* the record of the invocation
Returned(in, cb, a, r) ==
  /\ heap' = Store(heap, a, r.profile)
  /\ last' = [op |-> "userProfile", accessToken |-> in.token, given |-> in,
              cb |-> cb, profile |-> a, doneCalls |-> r.doneCalls,
              log |-> r.log, threw |-> r.threw]

\* the address of the object literal of line 148
Allocated(in, cb, a) == Returned(in, cb, a, UserProfile(self.name, in.token, cb, a))

\* strategy.userProfile(accessToken, done) with the token of input in
UserProfileCall(in, cb) ==
  /\ self.constructed
  /\ Len(heap) < MaxProfiles
  /\ Allocated(in, cb, NewObject(heap))
  /\ UNCHANGED <<options, self>>

\* strategy.parseErrorResponse(body, status): what the delegate's returns
ParseErrorResponse(body, status, res) ==
  /\ self.constructed
  /\ last' = [op |-> "parseErrorResponse", body |-> body, status |-> status,
              delegated |-> [fn |-> "OAuth2Strategy.prototype.parseErrorResponse",
                             this |-> self, args |-> <<body, status>>],
              result |-> res]
  /\ UNCHANGED <<options, self, heap>>

----------------------------------------------------------------------------
(* Specifications *)

\* One instance, from its construction on, its operations invoked in any order
Init ==
  /\ options \in SharedCtorInputs
  /\ self = NotConstructed
  /\ heap = <<>>
  /\ last = [op |-> "none"]

Next ==
  \/ Construct
  \/ \E req \in Requests, o \in SharedCallOptions : Authenticate(req, o)
  \/ \E o \in SharedCallOptions : AuthorizationParamsCall(o)
  \/ \E o \in SharedCallOptions : TokenParamsCall(o)
  \/ \E in \in SharedTokenInputs, cb \in CallbackBehaviours : UserProfileCall(in, cb)
  \/ \E res \in DelegateErrors : ParseErrorResponse("{\"error\":\"invalid_grant\"}", 400, res)

Spec == Init /\ [][Next]_vars

\* The constructor, on every options argument
InitConstruct ==
  /\ options \in CtorInputs
  /\ self = NotConstructed
  /\ heap = <<>>
  /\ last = [op |-> "none"]

NextConstruct == Construct

SpecConstruct == InitConstruct /\ [][NextConstruct]_vars

\* A constructed instance
InitConstructed ==
  /\ options = Obj(StrategyOptions(DefaultArg))
  /\ self = NewStrategy(DefaultArg)
  /\ heap = <<>>
  /\ last = [op |-> "new", arg |-> DefaultArg]

\* authorizationParams and tokenParams, on every per-call options object
NextParams ==
  \/ \E o \in CallOptions : AuthorizationParamsCall(o)
  \/ \E o \in CallOptions : TokenParamsCall(o)

SpecParams == InitConstructed /\ [][NextParams]_vars

\* userProfile, once, on every token and with a callback that returns or throws
NextProfile ==
  /\ heap = <<>>
  /\ \E in \in TokenInputs, cb \in CallbackBehaviours : UserProfileCall(in, cb)

SpecProfile == InitConstructed /\ [][NextProfile]_vars

----------------------------------------------------------------------------
(* Properties of userProfile *)

\* the profile object of the last userProfile invocation
LastProfile == heap[last.profile]

\* profile.name.key
NameField(p, k) ==
  IF Get(p, "name").t = "object" THEN Get(Get(p, "name").v, k) ELSE Undefined

\* profile.emails[0]
FirstEmail(p) ==
  IF Get(p, "emails").t = "array" /\ Len(Get(p, "emails").v) >= 1
    THEN Get(p, "emails").v[1]
    ELSE Undefined

\* done was called once (so far), as done(null, profile)
DoneWithProfile ==
  /\ Len(last.doneCalls) = 1
  /\ last.doneCalls[1].err = JSNull
  /\ last.doneCalls[1].profile = Ref(last.profile)

\* done was called once, as done(error, null), the error not null
DoneWithError ==
  /\ Len(last.doneCalls) = 1
  /\ last.doneCalls[1].err \notin {JSNull, Undefined}
  /\ last.doneCalls[1].profile = JSNull

AllClaimKeys == {ClaimKeys[i] : i \in 1..6}

\* the claim value the token was made with, as the JavaScript string it is
Claim(k) == Str(last.given.claims[k])

\* C1: for a three-segment token whose payload is the base64 of a JSON object
\* with all six claims, done is called with a null error and a profile whose
\* id, orgId, username, name.givenName, name.familyName and emails[0] are the
\* claims oid, tid, unique_name, given_name, family_name and email, and whose
\* displayName is given_name + " " + family_name.
C1_ProfileFromAllClaims ==
  (/\ last.op = "userProfile"
   /\ last.cb = "returns"
   /\ last.given.kind = "claims"
   /\ DOMAIN last.given.claims = AllClaimKeys)
  => /\ DoneWithProfile
     /\ Get(LastProfile, "id") = Claim(K_oid)
     /\ Get(LastProfile, "orgId") = Claim(K_tid)
     /\ Get(LastProfile, "username") = Claim(K_unique_name)
     /\ NameField(LastProfile, "givenName") = Claim(K_given_name)
     /\ NameField(LastProfile, "familyName") = Claim(K_family_name)
     /\ FirstEmail(LastProfile) = Claim(K_email)
     /\ Get(LastProfile, "displayName")
          = Str(last.given.claims[K_given_name] \o <<" ">> \o last.given.claims[K_family_name])

\* C2: for a token without a dot, done is called with a non-null error and a
\* null profile.
C2_NoDotTokenReportsError ==
  (last.op = "userProfile" /\ Separators(last.accessToken, ".") = {})
  => DoneWithError

\* the payload segment of the last token, which has one
PayloadSegment == Split(last.accessToken, ".")[2]

\* C3: for a token whose payload segment is not valid base64, or whose decoded
\* bytes are not valid UTF-8 JSON, done is called with a non-null error and a
\* null profile.
C3_BadPayloadReportsError ==
  (/\ last.op = "userProfile"
   /\ Separators(last.accessToken, ".") # {}
   /\ \/ ~IsStrictBase64(PayloadSegment)
      \/ ~IsValidUtf8(Base64Decode(PayloadSegment))
      \/ ~JSONParse(ToStringUtf8(Base64Decode(PayloadSegment))).ok)
  => DoneWithError

\* the profile field a claim is copied to
FieldOf(p, k) ==
  CASE k = K_oid -> Get(p, "id")
    [] k = K_tid -> Get(p, "orgId")
    [] k = K_unique_name -> Get(p, "username")
    [] k = K_given_name -> NameField(p, "givenName")
    [] k = K_family_name -> NameField(p, "familyName")
    [] k = K_email -> FirstEmail(p)

\* C8: for a token whose payload is a JSON object lacking some of the six
\* claims, done is called with a null error and a profile in which every field
\* fed by an absent claim is unset and every field fed by a present claim
\* equals it; no error outcome is produced.
C8_MissingClaimsLeaveFieldsUnset ==
  (last.op = "userProfile" /\ last.cb = "returns" /\ last.given.kind = "claims")
  => /\ DoneWithProfile
     /\ \A k \in AllClaimKeys :
          FieldOf(LastProfile, k)
            = IF k \in DOMAIN last.given.claims THEN Claim(k) ELSE Undefined
     /\ ({K_given_name, K_family_name} \ DOMAIN last.given.claims # {})
          => /\ Get(LastProfile, "displayName") = Undefined
             /\ Get(LastProfile, "displayname") = Undefined

\* C10: every invocation of userProfile ends with done called exactly once, as
\* done(null, profile) or as done(error, null), and with no exception leaving
\* userProfile, also when done itself throws.
C10_CallbackExactlyOnce ==
  (last.op = "userProfile")
  => /\ last.threw = None
     /\ DoneWithProfile \/ DoneWithError

----------------------------------------------------------------------------
(* Properties of authorizationParams and tokenParams *)

HintKeys == {"domain_hint", "login_hint", "prompt", "resource"}

\* the keys among ks that o has, with o's values
Restricted(o, ks) == [k \in DOMAIN o \cap ks |-> o[k]]

\* the keys among ks that o has with a non-empty value, with o's values
NonEmpty(o, ks) == [k \in {x \in DOMAIN o \cap ks : o[x] # ""} |-> o[k]]

\* C4, as claimed: authorizationParams(options) has exactly the keys among
\* domain_hint, login_hint, prompt and resource that options has, with the
\* same values.
C4_AsClaimed ==
  (last.op = "authorizationParams") => last.result = Restricted(last.options, HintKeys)

\* C4, amended: authorizationParams(options) has exactly the keys among
\* domain_hint, login_hint, prompt and resource that options has with a
\* non-empty value, with the same values; prompt is not validated.
C4_AuthorizationParams ==
  (last.op = "authorizationParams") => last.result = NonEmpty(last.options, HintKeys)

\* an unknown prompt is passed on, an empty login_hint is dropped and scope
\* is not copied
C4_Witness ==
  /\ last.op = "authorizationParams"
  /\ last.options = [domain_hint |-> "contoso.com", login_hint |-> "",
                     prompt |-> "bogus", scope |-> "openid"]
  /\ last.result = [domain_hint |-> "contoso.com", prompt |-> "bogus"]

\* C5, as claimed: tokenParams(options) is {resource: options.resource} when
\* options has resource, and empty otherwise.
C5_AsClaimed ==
  (last.op = "tokenParams") => last.result = Restricted(last.options, {"resource"})

\* C5, amended: tokenParams(options) is {resource: options.resource} when
\* options has a non-empty resource, and empty otherwise; no other key of
\* options appears in it.
C5_TokenParams ==
  (last.op = "tokenParams") => last.result = NonEmpty(last.options, {"resource"})

C5_Witness ==
  /\ last.op = "tokenParams"
  /\ last.options = [domain_hint |-> "contoso.com", login_hint |-> "al@contoso.com",
                     prompt |-> "login", resource |-> "https://graph.windows.net"]
  /\ last.result = [resource |-> "https://graph.windows.net"]

----------------------------------------------------------------------------
(* Properties of the constructor *)

\* the options the caller gave the constructor
GivenOptions == OptionsOrEmpty(last.arg)

AuthorizeTemplate(tenant) ==
  "https://login.windows.net/" \o tenant \o "/oauth2/authorize?api-version=1.0"

TokenTemplate(tenant) ==
  "https://login.windows.net/" \o tenant \o "/oauth2/token?api-version=1.0"

\* C6, as claimed: with a tenant identifier T, an authorization URL that is
\* not configured is derived from T and one that is configured is handed on
\* unchanged, and so for the token URL, each independently.
C6_AsClaimed ==
  (last.op = "new" /\ "tenantID" \in DOMAIN GivenOptions)
  => /\ self.super["authorizationURL"]
          = IF "authorizationURL" \in DOMAIN GivenOptions
              THEN GivenOptions["authorizationURL"]
              ELSE AuthorizeTemplate(GivenOptions["tenantID"])
     /\ self.super["tokenURL"]
          = IF "tokenURL" \in DOMAIN GivenOptions
              THEN GivenOptions["tokenURL"]
              ELSE TokenTemplate(GivenOptions["tenantID"])

\* C6, amended: with a tenant identifier T, an authorization URL that is not
\* configured or is the empty string is derived from T and one that is
\* configured and not empty is handed on unchanged, and so for the token URL,
\* each independently.
C6_EndpointURLs ==
  (last.op = "new" /\ "tenantID" \in DOMAIN GivenOptions)
  => /\ self.super["authorizationURL"]
          = IF "authorizationURL" \in DOMAIN GivenOptions
               /\ GivenOptions["authorizationURL"] # ""
              THEN GivenOptions["authorizationURL"]
              ELSE AuthorizeTemplate(GivenOptions["tenantID"])
     /\ self.super["tokenURL"]
          = IF "tokenURL" \in DOMAIN GivenOptions /\ GivenOptions["tokenURL"] # ""
              THEN GivenOptions["tokenURL"]
              ELSE TokenTemplate(GivenOptions["tenantID"])

\* an explicit authorization URL beside a derived token URL
C6_Witness ==
  /\ last.op = "new"
  /\ "tenantID" \in DOMAIN GivenOptions
  /\ GivenOptions["tenantID"] = "12c983bf-46f6-414f-93ab-5d7ad211db43"
  /\ "authorizationURL" \in DOMAIN GivenOptions
  /\ "tokenURL" \notin DOMAIN GivenOptions
  /\ self.super["authorizationURL"] = "https://login.example.net/authorize"
  /\ self.super["tokenURL"]
       = "https://login.windows.net/12c983bf-46f6-414f-93ab-5d7ad211db43/oauth2/token?api-version=1.0"

\* C7, as claimed: the scope separator handed on is ',' when none is
\* configured and the configured one whenever one is.
C7_AsClaimed ==
  (last.op = "new")
  => self.super["scopeSeparator"]
       = IF "scopeSeparator" \in DOMAIN GivenOptions
           THEN GivenOptions["scopeSeparator"]
           ELSE ","

\* C7, amended: the scope separator handed on is ',' when none is configured
\* or the configured one is the empty string, and the configured one whenever
\* it is not empty.
C7_ScopeSeparator ==
  (last.op = "new")
  => self.super["scopeSeparator"]
       = IF "scopeSeparator" \in DOMAIN GivenOptions /\ GivenOptions["scopeSeparator"] # ""
           THEN GivenOptions["scopeSeparator"]
           ELSE ","

\* no separator configured
C7_Witness ==
  /\ last.op = "new"
  /\ last.arg # Undefined
  /\ "scopeSeparator" \notin DOMAIN GivenOptions
  /\ self.super["scopeSeparator"] = ","

----------------------------------------------------------------------------
(* Properties of the invocations on one shared instance *)

\* whether the outcome of the userProfile invocation l, which left the profile
\* object p, is the outcome r
SameOutcome(l, p, r) ==
  /\ p = r.profile
  /\ l.doneCalls = r.doneCalls
  /\ l.threw = r.threw

\* whether the outcome of invocation l, on a heap h, is the one it has on its
\* own: on an instance named 'azure', with its own arguments only
OutcomeAsAlone(l, h) ==
  CASE l.op = "userProfile" ->
         SameOutcome(l, h[l.profile], UserProfile("azure", l.accessToken, l.cb, l.profile))
    [] l.op = "authorizationParams" -> l.result = NonEmpty(l.options, HintKeys)
    [] l.op = "tokenParams" -> l.result = NonEmpty(l.options, {"resource"})
    [] l.op = "authenticate" -> l.delegated.args = <<l.req, l.options>>
    [] OTHER -> TRUE

\* C9: once the instance is constructed, no invocation of authenticate,
\* authorizationParams, tokenParams or userProfile, in any order, changes the
\* instance or the configuration, or a profile object an earlier invocation
\* made, and each invocation's outcome is the one it has on its own.
C9_SharedInstanceIsReadOnly ==
  [][self.constructed =>
       /\ self' = self
       /\ options' = options
       /\ \A a \in 1..Len(heap) : heap'[a] = heap[a]
       /\ OutcomeAsAlone(last', heap')]_vars

\* two userProfile invocations and one of another operation have run, and
\* the two profiles differ
C9_Witness ==
  /\ Len(heap) >= 2
  /\ heap[1] # heap[2]
  /\ last.op = "authorizationParams"

=============================================================================
